---- MODULE Spec2Model ----
(***************************************************************************)
(* OrbitGuard scan execution engine: the job state machine of              *)
(* worker/run.py (claim_next_job, process_job, create_alert_deduped,       *)
(* run_once), the job intake of api/main.py (create_scan), the geometry    *)
(* of core/scan_math.py and the scoring of core/scoring.py.                *)
(*                                                                         *)
(* Every db.commit() of the source is one atomic step against the store;   *)
(* a SELECT and the commit that follows it are separate steps, so workers  *)
(* interleave between them exactly as separate database sessions do.       *)
(* Floats are modelled as exact rationals <<n, d>> (d > 0, lowest terms).  *)
(***************************************************************************)
EXTENDS Integers, Sequences, FiniteSets, Bags, TLC

(***************************************************************************)
(* Bounds of the model.                                                    *)
(***************************************************************************)
NumWorkers == 2
MaxJobs == 2
\* run_once invocations the external scheduler makes that claim a job
MaxRuns == 4
\* alert ids an operator may post to /alerts/{alert_id}/ack and /resolve
MaxAlertId == 2

(***************************************************************************)
(* Program constants.                                                      *)
(***************************************************************************)
DefaultMaxAttempts == 3
HourSeconds == 3600

None == "None"

(***************************************************************************)
(* Exact rational arithmetic standing for Python floats.                   *)
(***************************************************************************)
Abs(x) == IF x < 0 THEN -x ELSE x

RECURSIVE Gcd(_, _)
Gcd(a, b) == IF b = 0 THEN a ELSE Gcd(b, a % b)

Rat(n, d) ==
    LET s == IF d < 0 THEN -1 ELSE 1
        g == Gcd(Abs(n), Abs(d))
    IN  <<(s * n) \div g, (s * d) \div g>>

RInt(n) == <<n, 1>>
RLe(a, b) == a[1] * b[2] <= b[1] * a[2]
RLt(a, b) == a[1] * b[2] < b[1] * a[2]
RMin(a, b) == IF RLt(b, a) THEN b ELSE a
RMax(a, b) == IF RLt(a, b) THEN b ELSE a
RAdd(a, b) == Rat(a[1] * b[2] + b[1] * a[2], a[2] * b[2])
RSub(a, b) == Rat(a[1] * b[2] - b[1] * a[2], a[2] * b[2])
RMul(a, b) == Rat(a[1] * b[1], a[2] * b[2])
RDiv(a, b) == Rat(a[1] * b[2], a[2] * b[1])

\* math.sqrt on a rational whose numerator and denominator are perfect squares
RECURSIVE Newton(_, _)
Newton(n, x) == LET y == (x + n \div x) \div 2 IN IF y >= x THEN x ELSE Newton(n, y)
ISqrt(n) == IF n = 0 THEN 0 ELSE Newton(n, n)
RSqrt(a) == Rat(ISqrt(a[1]), ISqrt(a[2]))
IsExactSquare(a) == ISqrt(a[1]) * ISqrt(a[1]) = a[1] /\ ISqrt(a[2]) * ISqrt(a[2]) = a[2]

\* int(x): truncation toward zero
RTrunc(a) == IF a[1] >= 0 THEN a[1] \div a[2] ELSE -((-a[1]) \div a[2])

\* mutant of RRound: one past the floor, whatever the fraction
RRoundUp(a) == (a[1] \div a[2]) + 1

\* int(round(x)): Python 3 rounds halves to the even neighbour
RRound(a) ==
    LET fl == a[1] \div a[2]
        twice == 2 * (a[1] - fl * a[2])
    IN  IF twice < a[2] THEN fl
        ELSE IF twice > a[2] THEN fl + 1
        ELSE IF fl % 2 = 0 THEN fl ELSE fl + 1

(***************************************************************************)
(* core/scan_math.py                                                       *)
(***************************************************************************)
\* mutant of clamp: the upper bound is dropped
clamp_lo(x, lo, hi) == RMax(lo, x)

clamp(x, lo, hi) == RMax(lo, RMin(hi, x))

\* mutant of FirstIsCloser: `if d1 < d2`
FirstIsCloserStrict(d1, d2) == RLt(d1, d2)

\* zero-velocity branch: `if d1 <= d2: return start_ts, d1`
FirstIsCloser(d1, d2) == RLe(d1, d2)

\* Besides (tca_ts, dmin) the result carries dmin2, the radicand of dmin
\* (`cx*cx + cy*cy + cz*cz`): math.sqrt of a non-square is no rational, and
\* RSqrt is exact on squares only, so distances are compared on dmin2.
closest_approach_constant_velocity(o, start_ts, end_ts) ==
    LET t1 == RInt(start_ts)
        t2 == RInt(end_ts)
        t0 == RInt(o.epoch_ts)
        rx == RInt(o.x_km)
        ry == RInt(o.y_km)
        rz == RInt(o.z_km)
        vx == RInt(o.vx_km_s)
        vy == RInt(o.vy_km_s)
        vz == RInt(o.vz_km_s)
        v2 == RAdd(RAdd(RMul(vx, vx), RMul(vy, vy)), RMul(vz, vz))
        PosAt(dt) == <<RAdd(rx, RMul(vx, dt)), RAdd(ry, RMul(vy, dt)), RAdd(rz, RMul(vz, dt))>>
        Norm2(p) == RAdd(RAdd(RMul(p[1], p[1]), RMul(p[2], p[2])), RMul(p[3], p[3]))
        Norm(p) == RSqrt(Norm2(p))
    IN  IF v2 = RInt(0)
        THEN LET r1 == PosAt(RSub(t1, t0))
                 r2 == PosAt(RSub(t2, t0))
             IN  IF FirstIsCloser(Norm(r1), Norm(r2))
                 THEN [tca_ts |-> start_ts, dmin |-> Norm(r1), dmin2 |-> Norm2(r1)]
                 ELSE [tca_ts |-> end_ts, dmin |-> Norm(r2), dmin2 |-> Norm2(r2)]
        ELSE LET rv == RAdd(RAdd(RMul(rx, vx), RMul(ry, vy)), RMul(rz, vz))
                 t_star == clamp(RSub(t0, RDiv(rv, v2)), t1, t2)
                 c == PosAt(RSub(t_star, t0))
             IN  [tca_ts |-> RRound(t_star), dmin |-> Norm(c), dmin2 |-> Norm2(c)]

(***************************************************************************)
(* core/scoring.py                                                         *)
(***************************************************************************)
\* mutant of risk_score: `return s`, without the clamp to [0, 1]
risk_score_unclamped(threshold_km, min_distance_km) ==
    IF RLe(threshold_km, RInt(0))
    THEN RInt(0)
    ELSE RSub(RInt(1), RDiv(min_distance_km, threshold_km))

risk_score(threshold_km, min_distance_km) ==
    IF RLe(threshold_km, RInt(0))
    THEN RInt(0)
    ELSE LET s == RSub(RInt(1), RDiv(min_distance_km, threshold_km))
         IN  RMax(RInt(0), RMin(RInt(1), s))

(***************************************************************************)
(* The objects table (db/models.py Object), in table order, and the scan   *)
(* requests a client may post.  Every distance these produce is an exact   *)
(* rational, so math.sqrt is modelled without rounding.                    *)
(***************************************************************************)
Objects ==
    << [object_id |-> "A", epoch_ts |-> 0, x_km |-> 1000, y_km |-> 0, z_km |-> 0,
        vx_km_s |-> -10, vy_km_s |-> 0, vz_km_s |-> 0],
       [object_id |-> "B", epoch_ts |-> 0, x_km |-> 1000, y_km |-> 0, z_km |-> 0,
        vx_km_s |-> 0, vy_km_s |-> 0, vz_km_s |-> 0] >>

Requests ==
    { [start_ts |-> 0, end_ts |-> 200, threshold_km |-> RInt(50)],
      [start_ts |-> 0, end_ts |-> 95, threshold_km |-> RInt(50)] }

\* the requests posted while operators acknowledge and resolve alerts: a second
\* threshold gives a second dedupe key, so two alerts can exist
OpsRequests == Requests \cup {[start_ts |-> 0, end_ts |-> 200, threshold_km |-> RInt(60)]}

Workers == 1..NumWorkers

\* str(e) of the exception process_job raises, by the statement that raised
ScanError == "scan failed"
AlertError == "alert commit failed"

VARIABLES
    jobs,        \* scan_jobs table: row id = index, created in index order
    riskEvents,  \* risk_events table: a bag of rows (the autoincrement id is left out)
    alerts,      \* alerts table: row id = index
    pc,          \* where each worker stands in run_once
    wjob,        \* the job row the worker's session holds
    widx,        \* index of the object process_job is at
    werr,        \* the exception text caught by run_once
    wattempts,   \* job.attempts + 1 as computed in the except branch
    wep,         \* history: PENDING episode of wjob seen by the SELECT
    episode,     \* history: number of times each job entered PENDING
    nfail,       \* history: failed attempts of each job
    nsucc,       \* history: successful attempts of each job
    upsertLog,   \* history: the calls of create_alert_deduped
    opUpserts,   \* history: size of upsertLog at the last status change by ack/resolve
    call,        \* the call of a pure function under evaluation
    ret          \* its return value: <<>> before the call returns, <<value>> after

store == <<jobs, riskEvents, alerts>>
local == <<pc, wjob, widx, werr, wattempts>>
hist == <<wep, episode, nfail, nsucc, upsertLog>>
aux == <<opUpserts, call, ret>>
vars == <<jobs, riskEvents, alerts, pc, wjob, widx, werr, wattempts,
          wep, episode, nfail, nsucc, upsertLog, opUpserts, call, ret>>

JobIds == 1..Len(jobs)

\* the workers to which claim_next_job has returned job j and that still run it
Holders(j) == {w \in Workers : wjob[w] = j /\ pc[w] \in {"scan", "alert", "except"}}

\* history: the claims of job j that claim_next_job has returned so far
Claims(j) == nfail[j] + nsucc[j] + Cardinality(Holders(j))

RECURSIVE SumClaims(_)
SumClaims(n) == IF n = 0 THEN 0 ELSE Claims(n) + SumClaims(n - 1)

\* run_once invocations so far that found a job to claim
Runs == SumClaims(Len(jobs)) + Cardinality({w \in Workers : pc[w] = "claiming"})

Init ==
    /\ jobs = <<>>
    /\ riskEvents = EmptyBag
    /\ alerts = <<>>
    /\ pc = [w \in Workers |-> "idle"]
    /\ wjob = [w \in Workers |-> 0]
    /\ widx = [w \in Workers |-> 0]
    /\ werr = [w \in Workers |-> None]
    /\ wattempts = [w \in Workers |-> 0]
    /\ wep = [w \in Workers |-> 0]
    /\ episode = <<>>
    /\ nfail = <<>>
    /\ nsucc = <<>>
    /\ upsertLog = {}
    /\ opUpserts = 0
    /\ call = [fn |-> "none"]
    /\ ret = <<>>

(***************************************************************************)
(* api/main.py create_scan: POST /scans                                    *)
(***************************************************************************)
create_scan(scan) ==
    /\ Len(jobs) < MaxJobs
    /\ ~(scan.start_ts >= scan.end_ts)
    /\ jobs' = Append(jobs, [start_ts |-> scan.start_ts,
                             end_ts |-> scan.end_ts,
                             threshold_km |-> scan.threshold_km,
                             status |-> "PENDING",
                             attempts |-> 0,
                             max_attempts |-> DefaultMaxAttempts,
                             error |-> None])
    /\ episode' = Append(episode, 1)
    /\ nfail' = Append(nfail, 0)
    /\ nsucc' = Append(nsucc, 0)
    /\ UNCHANGED <<riskEvents, alerts, local, wep, upsertLog, aux>>

(***************************************************************************)
(* worker/run.py                                                           *)
(***************************************************************************)
\* mutant of hour_bucket: the start of the day
day_bucket(ts) == ts - (ts % (24 * HourSeconds))

hour_bucket(ts) == ts - (ts % HourSeconds)

\* mutant of OldestPending: order_by(created_at.desc())
NewestPending(js) ==
    LET P == {j \in 1..Len(js) : js[j].status = "PENDING"}
    IN  IF P = {} THEN 0 ELSE CHOOSE j \in P : \A k \in P : j >= k

\* mutant of OldestPending: a retried job goes behind the jobs not yet tried
\* (the PENDING row with the fewest attempts, the oldest among those)
LeastAttemptsPending(js) ==
    LET P == {j \in 1..Len(js) : js[j].status = "PENDING"}
        F == {j \in P : \A k \in P : js[j].attempts <= js[k].attempts}
    IN  IF P = {} THEN 0 ELSE CHOOSE j \in F : \A k \in F : j <= k

\* the query of claim_next_job: oldest PENDING row, 0 when there is none
OldestPending(js) ==
    LET P == {j \in 1..Len(js) : js[j].status = "PENDING"}
    IN  IF P = {} THEN 0 ELSE CHOOSE j \in P : \A k \in P : j <= k

\* claim_next_job up to `if job is None: return None`, and run_once's return
ClaimNone(w) ==
    /\ pc[w] = "idle"
    /\ OldestPending(jobs) = 0
    /\ wjob' = [wjob EXCEPT ![w] = 0]
    /\ UNCHANGED <<store, pc, widx, werr, wattempts, hist, aux>>

\* claim_next_job: the SELECT found a row
ClaimSelect(w) ==
    /\ pc[w] = "idle"
    /\ Runs < MaxRuns
    /\ OldestPending(jobs) # 0
    /\ wjob' = [wjob EXCEPT ![w] = OldestPending(jobs)]
    /\ wep' = [wep EXCEPT ![w] = episode[OldestPending(jobs)]]
    /\ pc' = [pc EXCEPT ![w] = "claiming"]
    /\ UNCHANGED <<store, widx, werr, wattempts, episode, nfail, nsucc, upsertLog, aux>>

\* claim_next_job: job.status = RUNNING; job.error = None; db.commit(); return job
ClaimCommit(w) ==
    /\ pc[w] = "claiming"
    /\ jobs' = [jobs EXCEPT ![wjob[w]].status = "RUNNING", ![wjob[w]].error = None]
    /\ pc' = [pc EXCEPT ![w] = "scan"]
    /\ widx' = [widx EXCEPT ![w] = 1]
    /\ UNCHANGED <<riskEvents, alerts, wjob, werr, wattempts, wep, episode, nfail, nsucc, upsertLog, aux>>

\* the alerts table: INSERT under the UNIQUE constraint on dedupe_key
AlertsInsert(rows, alert) ==
    IF \E i \in 1..Len(rows) : rows[i].dedupe_key = alert.dedupe_key
    THEN [IntegrityError |-> TRUE, rows |-> rows]
    ELSE [IntegrityError |-> FALSE, rows |-> Append(rows, alert)]

\* mutant of DedupeKey: the key built from tca_ts itself, not from its hour
DedupeKeyNoBucket(object_id, tca_ts, threshold_km) ==
    <<object_id, tca_ts, RTrunc(threshold_km)>>

\* f"{object_id}:{hour_bucket(tca_ts)}:{int(threshold_km)}"
DedupeKey(object_id, tca_ts, threshold_km) ==
    <<object_id, hour_bucket(tca_ts), RTrunc(threshold_km)>>

\* mutant of create_alert_deduped: on IntegrityError the existing row is updated
create_alert_overwrite(rows, object_id, tca_ts, min_distance_km, score, threshold_km) ==
    LET key == DedupeKey(object_id, tca_ts, threshold_km)
        alert == [object_id |-> object_id,
                  tca_ts |-> tca_ts,
                  min_distance_km |-> min_distance_km,
                  risk_score |-> score,
                  status |-> "OPEN",
                  dedupe_key |-> key]
        res == AlertsInsert(rows, alert)
    IN  IF res.IntegrityError
        THEN [i \in 1..Len(rows) |-> IF rows[i].dedupe_key = key THEN alert ELSE rows[i]]
        ELSE res.rows

\* mutant of create_alert_deduped: a repeated detection reopens the alert
create_alert_reopen(rows, object_id, tca_ts, min_distance_km, score, threshold_km) ==
    LET key == DedupeKey(object_id, tca_ts, threshold_km)
    IN  IF \E i \in 1..Len(rows) : rows[i].dedupe_key = key
        THEN [i \in 1..Len(rows) |->
                 IF rows[i].dedupe_key = key THEN [rows[i] EXCEPT !.status = "OPEN"] ELSE rows[i]]
        ELSE Append(rows, [object_id |-> object_id,
                           tca_ts |-> tca_ts,
                           min_distance_km |-> min_distance_km,
                           risk_score |-> score,
                           status |-> "OPEN",
                           dedupe_key |-> key])

\* mutant of create_alert_deduped: the duplicate row is stored all the same
create_alert_duplicate(rows, object_id, tca_ts, min_distance_km, score, threshold_km) ==
    Append(rows, [object_id |-> object_id,
                  tca_ts |-> tca_ts,
                  min_distance_km |-> min_distance_km,
                  risk_score |-> score,
                  status |-> "OPEN",
                  dedupe_key |-> DedupeKey(object_id, tca_ts, threshold_km)])

create_alert_deduped(rows, object_id, tca_ts, min_distance_km, score, threshold_km) ==
    LET alert == [object_id |-> object_id,
                  tca_ts |-> tca_ts,
                  min_distance_km |-> min_distance_km,
                  risk_score |-> score,
                  status |-> "OPEN",
                  dedupe_key |-> DedupeKey(object_id, tca_ts, threshold_km)]
        res == AlertsInsert(rows, alert)
    IN  IF res.IntegrityError THEN rows ELSE res.rows

\* process_job: the closest approach of one object in the job's window; the
\* source's function is pure, so its results are tabulated once
Windows == {<<r.start_ts, r.end_ts>> : r \in OpsRequests}
ApproachTable ==
    [win \in Windows, i \in 1..Len(Objects) |->
        closest_approach_constant_velocity(Objects[i], win[1], win[2])]
Approach(job, obj) ==
    LET i == CHOOSE k \in 1..Len(Objects) : Objects[k] = obj
    IN  ApproachTable[<<job.start_ts, job.end_ts>>, i]

\* process_job: `score = risk_score(job.threshold_km, dmin)`, tabulated likewise
Thresholds == {r.threshold_km : r \in OpsRequests}
ScoreTable ==
    [win \in Windows, thr \in Thresholds, i \in 1..Len(Objects) |->
        risk_score(thr, ApproachTable[win, i].dmin)]
Score(job, obj) ==
    LET i == CHOOSE k \in 1..Len(Objects) : Objects[k] = obj
    IN  ScoreTable[<<job.start_ts, job.end_ts>>, job.threshold_km, i]

\* mutant of Flagged: `if dmin < job.threshold_km`
FlaggedStrict(job, obj) == RLt(Approach(job, obj).dmin, job.threshold_km)

\* process_job: `if dmin <= job.threshold_km`
Flagged(job, obj) == RLe(Approach(job, obj).dmin, job.threshold_km)

\* process_job: the RiskEvent row of a flagged object
NewRiskEvent(j, job, obj) ==
    [job_id |-> j,
     object_id |-> obj.object_id,
     min_distance_km |-> Approach(job, obj).dmin,
     tca_ts |-> Approach(job, obj).tca_ts,
     risk_score |-> Score(job, obj)]

\* mutant of ScanObject: the RiskEvent is not committed before the alert upsert
ScanObjectUncommitted(w) ==
    /\ pc[w] = "scan"
    /\ widx[w] <= Len(Objects)
    /\ LET job == jobs[wjob[w]]
           obj == Objects[widx[w]]
       IN  IF Flagged(job, obj)
           THEN /\ pc' = [pc EXCEPT ![w] = "alert"]
                /\ UNCHANGED widx
           ELSE /\ widx' = [widx EXCEPT ![w] = @ + 1]
                /\ UNCHANGED pc
    /\ UNCHANGED <<jobs, riskEvents, alerts, wjob, werr, wattempts, hist, aux>>

\* process_job, one iteration of the loop up to db.add(risk); db.commit()
ScanObject(w) ==
    /\ pc[w] = "scan"
    /\ widx[w] <= Len(Objects)
    /\ LET job == jobs[wjob[w]]
           obj == Objects[widx[w]]
       IN  IF Flagged(job, obj)
           THEN /\ riskEvents' = riskEvents (+) SetToBag({NewRiskEvent(wjob[w], job, obj)})
                /\ pc' = [pc EXCEPT ![w] = "alert"]
                /\ UNCHANGED widx
           ELSE /\ widx' = [widx EXCEPT ![w] = @ + 1]
                /\ UNCHANGED <<riskEvents, pc>>
    /\ UNCHANGED <<jobs, alerts, wjob, werr, wattempts, hist, aux>>

\* process_job, the rest of the iteration: create_alert_deduped(...)
UpsertAlert(w) ==
    /\ pc[w] = "alert"
    /\ LET job == jobs[wjob[w]]
           obj == Objects[widx[w]]
           ev == NewRiskEvent(wjob[w], job, obj)
       IN  /\ alerts' = create_alert_deduped(alerts, obj.object_id, ev.tca_ts,
                                             ev.min_distance_km, ev.risk_score,
                                             job.threshold_km)
           /\ upsertLog' = upsertLog \cup
                  {[job_id |-> wjob[w], object_id |-> obj.object_id, tca_ts |-> ev.tca_ts,
                    min_distance_km |-> ev.min_distance_km, score |-> ev.risk_score,
                    threshold_km |-> job.threshold_km]}
    /\ pc' = [pc EXCEPT ![w] = "scan"]
    /\ widx' = [widx EXCEPT ![w] = @ + 1]
    /\ UNCHANGED <<jobs, riskEvents, wjob, werr, wattempts, wep, episode, nfail, nsucc, aux>>

\* mutant of Succeed: run_once returns without writing the job's status
SucceedUncommitted(w) ==
    /\ pc[w] = "scan"
    /\ widx[w] > Len(Objects)
    /\ nsucc' = [nsucc EXCEPT ![wjob[w]] = @ + 1]
    /\ pc' = [pc EXCEPT ![w] = "idle"]
    /\ widx' = [widx EXCEPT ![w] = 0]
    /\ wep' = [wep EXCEPT ![w] = 0]
    /\ UNCHANGED <<jobs, riskEvents, alerts, wjob, werr, wattempts, episode, nfail, upsertLog, aux>>

\* run_once: process_job returned; job.status = SUCCEEDED; db.commit(); db.close()
Succeed(w) ==
    /\ pc[w] = "scan"
    /\ widx[w] > Len(Objects)
    /\ jobs' = [jobs EXCEPT ![wjob[w]].status = "SUCCEEDED"]
    /\ nsucc' = [nsucc EXCEPT ![wjob[w]] = @ + 1]
    /\ pc' = [pc EXCEPT ![w] = "idle"]
    /\ widx' = [widx EXCEPT ![w] = 0]
    /\ wep' = [wep EXCEPT ![w] = 0]
    /\ UNCHANGED <<riskEvents, alerts, wjob, werr, wattempts, episode, nfail, upsertLog, aux>>

\* run_once: an exception inside the try block; db.rollback(); job.attempts += 1
\* reads the row again, job.error = str(e)
Raise(w) ==
    /\ pc[w] \in {"scan", "alert"}
    /\ werr' = [werr EXCEPT ![w] = IF pc[w] = "alert" THEN AlertError ELSE ScanError]
    /\ wattempts' = [wattempts EXCEPT ![w] = jobs[wjob[w]].attempts + 1]
    /\ pc' = [pc EXCEPT ![w] = "except"]
    /\ UNCHANGED <<store, wjob, widx, hist, aux>>

\* mutant of RetryStatus: the except branch leaves the job RUNNING
RetryStatusStuck(attempts, max_attempts) ==
    IF attempts < max_attempts THEN "RUNNING" ELSE "FAILED"

\* run_once: the status chosen in the except branch
RetryStatus(attempts, max_attempts) ==
    IF attempts < max_attempts THEN "PENDING" ELSE "FAILED"

\* run_once: the except branch's db.commit(); db.close()
FailCommit(w) ==
    /\ pc[w] = "except"
    /\ LET j == wjob[w]
           st == RetryStatus(wattempts[w], jobs[j].max_attempts)
       IN  /\ jobs' = [jobs EXCEPT ![j].attempts = wattempts[w],
                                   ![j].error = werr[w],
                                   ![j].status = st]
           /\ episode' = [episode EXCEPT ![j] =
                             IF st = "PENDING" /\ jobs[j].status # "PENDING" THEN @ + 1 ELSE @]
           /\ nfail' = [nfail EXCEPT ![j] = @ + 1]
    /\ pc' = [pc EXCEPT ![w] = "idle"]
    /\ widx' = [widx EXCEPT ![w] = 0]
    /\ werr' = [werr EXCEPT ![w] = None]
    /\ wattempts' = [wattempts EXCEPT ![w] = 0]
    /\ wep' = [wep EXCEPT ![w] = 0]
    /\ UNCHANGED <<riskEvents, alerts, wjob, nsucc, upsertLog, aux>>

\* one step of a worker's run_once
run_once(w) ==
    \/ ClaimNone(w)
    \/ ClaimSelect(w)
    \/ ClaimCommit(w)
    \/ ScanObject(w)
    \/ UpsertAlert(w)
    \/ Succeed(w)
    \/ Raise(w)
    \/ FailCommit(w)

Next ==
    \/ \E scan \in Requests : create_scan(scan)
    \/ \E w \in Workers : run_once(w)

Spec == Init /\ [][Next]_vars

\* a single worker: the scheduler starts run_once only after the last one returned
FirstWorker == CHOOSE w \in Workers : \A v \in Workers : w <= v
NextSeq ==
    \/ \E scan \in Requests : create_scan(scan)
    \/ run_once(FirstWorker)

SpecSeq == Init /\ [][NextSeq]_vars

\* the external scheduler keeps invoking run_once, and an invocation runs to its end
SpecLive == Spec /\ \A w \in Workers : WF_vars(run_once(w))

(***************************************************************************)
(* Strings as Python builds and compares them: a str is the sequence of    *)
(* its characters.                                                         *)
(***************************************************************************)
DigitChars == <<"0", "1", "2", "3", "4", "5", "6", "7", "8", "9">>

RECURSIVE NatStr(_)
NatStr(n) == IF n < 10 THEN <<DigitChars[n + 1]>>
             ELSE NatStr(n \div 10) \o <<DigitChars[(n % 10) + 1]>>

\* str(n) of an int, as an f-string formats it
IntStr(n) == IF n < 0 THEN <<"-">> \o NatStr(-n) ELSE NatStr(n)

\* create_alert_deduped: the dedupe_key as the string the f-string builds,
\* object_id being given by its characters
FormatDedupeKey(object_id, tca_ts, threshold_km) ==
    object_id \o <<":">> \o IntStr(hour_bucket(tca_ts)) \o <<":">> \o IntStr(RTrunc(threshold_km))

\* the characters of the payload's keys, in code point order ("_" is 95, "a" 97)
KeyAlphabet == <<"_", "a", "b", "c", "d", "e", "f", "g", "h", "i", "j", "k", "l", "m", "n", "o", "p", "q", "r", "s", "t", "u", "v", "w", "x", "y", "z">>
CodePoint(c) == CHOOSE i \in 1..Len(KeyAlphabet) : KeyAlphabet[i] = c

\* s < t as Python compares str
RECURSIVE StrLess(_, _)
StrLess(s, t) ==
    IF t = <<>> THEN FALSE
    ELSE IF s = <<>> THEN TRUE
    ELSE IF CodePoint(Head(s)) # CodePoint(Head(t)) THEN CodePoint(Head(s)) < CodePoint(Head(t))
    ELSE StrLess(Tail(s), Tail(t))

K_object_id == <<"o", "b", "j", "e", "c", "t", "_", "i", "d">>
K_window == <<"w", "i", "n", "d", "o", "w">>
K_start_ts == <<"s", "t", "a", "r", "t", "_", "t", "s">>
K_end_ts == <<"e", "n", "d", "_", "t", "s">>
K_epoch_ts == <<"e", "p", "o", "c", "h", "_", "t", "s">>
K_closest_approach == <<"c", "l", "o", "s", "e", "s", "t", "_", "a", "p", "p", "r", "o", "a", "c", "h">>
K_tca_ts == <<"t", "c", "a", "_", "t", "s">>
K_min_distance_km == <<"m", "i", "n", "_", "d", "i", "s", "t", "a", "n", "c", "e", "_", "k", "m">>
K_threshold_km == <<"t", "h", "r", "e", "s", "h", "o", "l", "d", "_", "k", "m">>
K_risk_score == <<"r", "i", "s", "k", "_", "s", "c", "o", "r", "e">>
K_why_flagged == <<"w", "h", "y", "_", "f", "l", "a", "g", "g", "e", "d">>

\* json.dumps(..., sort_keys=True) of a dict given as its items in insertion
\* order: the items of every dict, nested ones included, sorted by key
RECURSIVE InsertItem(_, _)
InsertItem(item, sorted) ==
    IF sorted = <<>> THEN <<item>>
    ELSE IF StrLess(item.key, Head(sorted).key) THEN <<item>> \o sorted
    ELSE <<Head(sorted)>> \o InsertItem(item, Tail(sorted))

RECURSIVE SortItems(_)
SortItems(items) ==
    IF items = <<>> THEN <<>> ELSE InsertItem(Head(items), SortItems(Tail(items)))

\* mutant of json_dumps: sort_keys left out
json_dumps_unsorted(items) == items

json_dumps(items) ==
    SortItems([i \in 1..Len(items) |->
                  IF items[i].dict
                  THEN [items[i] EXCEPT !.value = SortItems(items[i].value)]
                  ELSE items[i]])

Item(key, value) == [key |-> key, dict |-> FALSE, value |-> value]
DictItem(key, items) == [key |-> key, dict |-> TRUE, value |-> items]

\* core/scoring.py build_explanation_json
build_explanation_json(object_id, epoch_ts, start_ts, end_ts, threshold_km, tca_ts, min_distance_km, score) ==
    json_dumps(<<Item(K_object_id, object_id),
                 DictItem(K_window, <<Item(K_start_ts, start_ts), Item(K_end_ts, end_ts)>>),
                 Item(K_epoch_ts, epoch_ts),
                 DictItem(K_closest_approach,
                          <<Item(K_tca_ts, tca_ts), Item(K_min_distance_km, min_distance_km)>>),
                 Item(K_threshold_km, threshold_km),
                 Item(K_risk_score, score),
                 Item(K_why_flagged, RLe(min_distance_km, threshold_km))>>)

(***************************************************************************)
(* api/main.py ack_alert, resolve_alert: POST /alerts/{alert_id}/ack and   *)
(* /resolve.  call and ret hold the request and the status of the AlertOut *)
(* (or the 404) it was answered with.                                      *)
(***************************************************************************)
AlertStatus == {"OPEN", "ACKED", "RESOLVED"}
NotFound == "404"

\* mutant of Resolved: a RESOLVED alert is reopened
ResolvedToggle(status) == IF status # "RESOLVED" THEN "RESOLVED" ELSE "OPEN"

\* ack_alert: `if alert.status == OPEN: alert.status = ACKED`
Acked(status) == IF status = "OPEN" THEN "ACKED" ELSE status

\* resolve_alert: `if alert.status != RESOLVED: alert.status = RESOLVED`
Resolved(status) == IF status # "RESOLVED" THEN "RESOLVED" ELSE status

ack_alert(alert_id) ==
    /\ IF alert_id \notin 1..Len(alerts)
       THEN /\ ret' = <<NotFound>>
            /\ UNCHANGED <<alerts, opUpserts>>
       ELSE /\ alerts' = [alerts EXCEPT ![alert_id].status = Acked(@)]
            /\ opUpserts' = IF alerts'[alert_id].status # alerts[alert_id].status
                                THEN Cardinality(upsertLog) ELSE opUpserts
            /\ ret' = <<alerts'[alert_id].status>>
    /\ call' = [fn |-> "ack_alert", alert_id |-> alert_id]
    /\ UNCHANGED <<jobs, riskEvents, local, hist>>

resolve_alert(alert_id) ==
    /\ IF alert_id \notin 1..Len(alerts)
       THEN /\ ret' = <<NotFound>>
            /\ UNCHANGED <<alerts, opUpserts>>
       ELSE /\ alerts' = [alerts EXCEPT ![alert_id].status = Resolved(@)]
            /\ opUpserts' = IF alerts'[alert_id].status # alerts[alert_id].status
                                THEN Cardinality(upsertLog) ELSE opUpserts
            /\ ret' = <<alerts'[alert_id].status>>
    /\ call' = [fn |-> "resolve_alert", alert_id |-> alert_id]
    /\ UNCHANGED <<jobs, riskEvents, local, hist>>

\* one worker, and operators acting on the alerts it raises
NextOps ==
    \/ \E scan \in OpsRequests : create_scan(scan)
    \/ run_once(FirstWorker)
    \/ \E alert_id \in 1..MaxAlertId : ack_alert(alert_id)
    \/ \E alert_id \in 1..MaxAlertId : resolve_alert(alert_id)

SpecOps == Init /\ [][NextOps]_vars

(***************************************************************************)
(* Job intake alone: the bodies a client may post to /scans, valid or not  *)
(***************************************************************************)
IntakeRequests ==
    [start_ts : {0, 5, 95, 200}, end_ts : {0, 10, 95, 200},
     threshold_km : {RInt(50), Rat(1, 2), RInt(0), RInt(-5)}]

NextIntake == \E scan \in IntakeRequests : create_scan(scan)

SpecIntake == Init /\ [][NextIntake]_vars

(***************************************************************************)
(* The pure functions, each applied to arguments drawn from bounded sets:  *)
(* call holds the arguments, ret the value returned.                       *)
(***************************************************************************)
ScoreThresholds == {RInt(-1), RInt(0), Rat(1, 2), RInt(1), RInt(2), RInt(50)}
ScoreDistances ==
    {RInt(0), Rat(1, 4), Rat(1, 2), RInt(1), Rat(3, 2), RInt(2), RInt(3), RInt(50), RInt(51)}
ScoreCalls ==
    [fn : {"risk_score"}, threshold_km : ScoreThresholds, min_distance_km : ScoreDistances]

GeoObjects ==
    [object_id : {"G"}, epoch_ts : {0, 2}, x_km : {-3, 0, 4}, y_km : {0, 3}, z_km : {0, 1},
     vx_km_s : {-2, 0, 1}, vy_km_s : {0, 1}, vz_km_s : {0, -1}]
GeoWindows == {win \in {0, 1, 3} \X {1, 2, 4, 6} : win[1] < win[2]}
GeoCalls ==
    {[fn |-> "closest_approach_constant_velocity", o |-> o,
      start_ts |-> win[1], end_ts |-> win[2]] : o \in GeoObjects, win \in GeoWindows}

ExplainCalls ==
    [fn : {"build_explanation_json"}, object_id : {"A", "B"}, epoch_ts : {0},
     start_ts : {0}, end_ts : {95, 200}, threshold_km : {RInt(50), Rat(1, 2)},
     tca_ts : {95, 100}, min_distance_km : {RInt(0), RInt(50), RInt(51)},
     score : {RInt(0), RInt(1)}]

\* detections: process_job calls create_alert_deduped only when
\* 0 <= dmin <= threshold_km, so the thresholds of detections are not negative
KeyObjectIds == {<<"A">>, <<"B">>, <<"A", ":", "0">>}
KeyTimes == {-1, 0, 3599, 3600, 7199, 7200}
KeyThresholds == {RInt(0), Rat(1, 2), RInt(1), Rat(3, 2), RInt(50), Rat(101, 2)}
KeyCalls ==
    [fn : {"dedupe_key"}, object_id : KeyObjectIds, tca_ts : KeyTimes,
     threshold_km : KeyThresholds]

PureCalls == ScoreCalls \cup GeoCalls \cup ExplainCalls \cup KeyCalls

InitPure ==
    /\ jobs = <<>>
    /\ riskEvents = EmptyBag
    /\ alerts = <<>>
    /\ pc = [w \in Workers |-> "idle"]
    /\ wjob = [w \in Workers |-> 0]
    /\ widx = [w \in Workers |-> 0]
    /\ werr = [w \in Workers |-> None]
    /\ wattempts = [w \in Workers |-> 0]
    /\ wep = [w \in Workers |-> 0]
    /\ episode = <<>>
    /\ nfail = <<>>
    /\ nsucc = <<>>
    /\ upsertLog = {}
    /\ opUpserts = 0
    /\ call \in PureCalls
    /\ ret = <<>>

risk_score_call ==
    /\ call.fn = "risk_score"
    /\ ret = <<>>
    /\ ret' = <<risk_score(call.threshold_km, call.min_distance_km)>>
    /\ UNCHANGED <<store, local, hist, opUpserts, call>>

closest_approach_call ==
    /\ call.fn = "closest_approach_constant_velocity"
    /\ ret = <<>>
    /\ ret' = <<closest_approach_constant_velocity(call.o, call.start_ts, call.end_ts)>>
    /\ UNCHANGED <<store, local, hist, opUpserts, call>>

build_explanation_call ==
    /\ call.fn = "build_explanation_json"
    /\ ret = <<>>
    /\ ret' = <<build_explanation_json(call.object_id, call.epoch_ts, call.start_ts,
                                       call.end_ts, call.threshold_km, call.tca_ts,
                                       call.min_distance_km, call.score)>>
    /\ UNCHANGED <<store, local, hist, opUpserts, call>>

dedupe_key_call ==
    /\ call.fn = "dedupe_key"
    /\ ret = <<>>
    /\ ret' = <<FormatDedupeKey(call.object_id, call.tca_ts, call.threshold_km)>>
    /\ UNCHANGED <<store, local, hist, opUpserts, call>>

NextPure ==
    \/ risk_score_call
    \/ closest_approach_call
    \/ build_explanation_call
    \/ dedupe_key_call

SpecPure == InitPure /\ [][NextPure]_vars

(***************************************************************************)
(* Properties                                                              *)
(***************************************************************************)
Terminal(j) == jobs[j].status \in {"SUCCEEDED", "FAILED"}

\* C1: two claim_next_job calls never both return the same job for the same
\* PENDING episode: no two workers hold a job that both selected while it was
\* in one and the same PENDING episode.
C1_ExclusiveClaim ==
    \A w1, w2 \in Workers :
        (w1 # w2 /\ wjob[w1] = wjob[w2] /\ wjob[w1] # 0
            /\ w1 \in Holders(wjob[w1]) /\ w2 \in Holders(wjob[w2]))
        => wep[w1] # wep[w2]

\* C2: every change of a job's status is PENDING->RUNNING (by a claim),
\* RUNNING->SUCCEEDED, RUNNING->PENDING or RUNNING->FAILED; SUCCEEDED and FAILED
\* are never left.
C2_StatusTransitions ==
    [][\A j \in JobIds :
          jobs'[j].status # jobs[j].status =>
              /\ <<jobs[j].status, jobs'[j].status>> \in
                     {<<"PENDING", "RUNNING">>, <<"RUNNING", "SUCCEEDED">>,
                      <<"RUNNING", "PENDING">>, <<"RUNNING", "FAILED">>}
              /\ jobs'[j].status = "RUNNING" =>
                     \E w \in Workers :
                         pc[w] = "claiming" /\ pc'[w] = "scan" /\ wjob[w] = j]_vars

\* C3: a job whose every attempt raised ends FAILED with attempts = max_attempts,
\* an error recorded, after exactly max_attempts claims.
C3_RetryBound ==
    \A j \in JobIds :
        (jobs[j].status = "FAILED" /\ nsucc[j] = 0 /\ Holders(j) = {}
            /\ ~\E w \in Workers : pc[w] = "claiming" /\ wjob[w] = j)
        => /\ jobs[j].attempts = jobs[j].max_attempts
           /\ jobs[j].error \in {ScanError, AlertError}
           /\ Claims(j) = jobs[j].max_attempts

\* C4: a successful completion leaves attempts unchanged, so the attempts of a
\* SUCCEEDED job equal the number of its failed attempts (failed twice, then
\* succeeded: attempts = 2).
C4_SucceededAttempts ==
    \A j \in JobIds :
        (jobs[j].status = "SUCCEEDED" /\ Holders(j) = {})
        => jobs[j].attempts = nfail[j]

\* C5: the alerts table never holds two rows with the same dedupe_key, and a
\* row's key is that of its object, the hour of its tca_ts and its threshold,
\* so no two rows stand for the same object, hour and threshold.
C5_UniqueDedupeKey ==
    \A a, b \in 1..Len(alerts) :
        \/ a = b
        \/ /\ alerts[a].dedupe_key # alerts[b].dedupe_key
           /\ <<alerts[a].object_id, hour_bucket(alerts[a].tca_ts), alerts[a].dedupe_key[3]>>
                  # <<alerts[b].object_id, hour_bucket(alerts[b].tca_ts), alerts[b].dedupe_key[3]>>

\* two calls of create_alert_deduped with one object, hour and threshold but
\* different distances have happened
SameKeyCalls ==
    \E c1, c2 \in upsertLog :
        /\ c1.object_id = c2.object_id
        /\ hour_bucket(c1.tca_ts) = hour_bucket(c2.tca_ts)
        /\ RTrunc(c1.threshold_km) = RTrunc(c2.threshold_km)
        /\ c1.min_distance_km # c2.min_distance_km
        /\ c1.score # c2.score

C5_Witness == SameKeyCalls /\ Len(alerts) = 1

\* C6: a call of create_alert_deduped leaves exactly one row with its key; when
\* the key was there already the call changes nothing, and when it was not the
\* new row carries the call's tca_ts, min_distance_km, score and status OPEN.
C6_FirstCallWins ==
    [][\A w \in Workers :
          (pc[w] = "alert" /\ pc'[w] = "scan") =>
              LET job == jobs[wjob[w]]
                  obj == Objects[widx[w]]
                  ca == ApproachTable[<<job.start_ts, job.end_ts>>, widx[w]]
                  key == <<obj.object_id, hour_bucket(ca.tca_ts), RTrunc(job.threshold_km)>>
                  had == {i \in 1..Len(alerts) : alerts[i].dedupe_key = key}
                  has == {i \in 1..Len(alerts') : alerts'[i].dedupe_key = key}
              IN  /\ Cardinality(has) = 1
                  /\ had # {} => alerts' = alerts
                  /\ had = {} =>
                        /\ alerts' = Append(alerts, alerts'[Len(alerts')])
                        /\ alerts'[Len(alerts')].tca_ts = ca.tca_ts
                        /\ alerts'[Len(alerts')].min_distance_km = ca.dmin
                        /\ alerts'[Len(alerts')].risk_score = risk_score(job.threshold_km, ca.dmin)
                        /\ alerts'[Len(alerts')].status = "OPEN"]_vars

C6_Witness ==
    /\ SameKeyCalls
    /\ Len(alerts) = 1
    /\ \E c \in upsertLog : c.min_distance_km # alerts[1].min_distance_km

C7_WitnessNone ==
    \E w \in Workers : pc[w] = "idle" /\ wjob[w] = 0 /\ Len(jobs) > 0 /\ nsucc[1] + nfail[1] > 0

\* C8: while the scheduler still invokes run_once, every created job eventually
\* is SUCCEEDED, or FAILED with an error recorded.
C8_EveryJobEnds ==
    \A j \in 1..MaxJobs :
        (j \in JobIds) ~>
            \/ j \in JobIds /\ jobs[j].status = "SUCCEEDED"
            \/ j \in JobIds /\ jobs[j].status = "FAILED" /\ jobs[j].error # None
            \/ Runs >= MaxRuns /\ \A w \in Workers : pc[w] = "idle"

\* the older job failed on every attempt and the newer one ended all the same
C8_Witness ==
    /\ Len(jobs) = 2
    /\ jobs[1].status = "FAILED" /\ nsucc[1] = 0 /\ jobs[1].error # None
    /\ jobs[2].status = "SUCCEEDED"

\* C9: the risk_events table holds at most one row for any (job_id, object_id).
C9_OneRiskEventPerJobObject ==
    \A e1, e2 \in BagToSet(riskEvents) :
        (e1.job_id = e2.job_id /\ e1.object_id = e2.object_id)
        => (e1 = e2 /\ CopiesIn(e1, riskEvents) = 1)

\* C10: once a job is SUCCEEDED, each object has a RiskEvent of that job, and
\* create_alert_deduped was called for it, exactly when its closest approach in
\* the job's window is <= threshold_km (equality included); the object reaching
\* distance 0 at t = 100 in [0, 200] with threshold 50 is flagged with score 1,
\* and the stationary object at 1000 km is never flagged.
C10_FlaggedIffWithinThreshold ==
    /\ \A j \in JobIds :
          jobs[j].status = "SUCCEEDED" =>
              \A i \in 1..Len(Objects) :
                  LET ca == ApproachTable[<<jobs[j].start_ts, jobs[j].end_ts>>, i]
                      within == ca.dmin[1] * jobs[j].threshold_km[2]
                                    <= jobs[j].threshold_km[1] * ca.dmin[2]
                      events == {e \in BagToSet(riskEvents) :
                                    e.job_id = j /\ e.object_id = Objects[i].object_id}
                      calls == {c \in upsertLog :
                                    c.job_id = j /\ c.object_id = Objects[i].object_id}
                  IN  /\ (events # {}) <=> within
                      /\ (calls # {}) <=> within
                      /\ \A e \in events : e.min_distance_km = ca.dmin /\ e.tca_ts = ca.tca_ts
    /\ \A j \in JobIds :
          (jobs[j].status = "SUCCEEDED" /\ jobs[j].start_ts = 0 /\ jobs[j].end_ts = 200
              /\ jobs[j].threshold_km = <<50, 1>>)
          => \E e \in BagToSet(riskEvents) :
                 /\ e.job_id = j /\ e.object_id = "A" /\ e.tca_ts = 100
                 /\ e.min_distance_km = <<0, 1>> /\ e.risk_score = <<1, 1>>
    /\ \A e \in BagToSet(riskEvents) : e.object_id # "B"
    /\ \A i \in 1..Len(alerts) : alerts[i].object_id # "B"

\* a job whose object A comes to exactly threshold_km has SUCCEEDED next to one
\* whose object A reaches distance 0
C10_Witness ==
    \E j, k \in JobIds :
        /\ jobs[j].status = "SUCCEEDED" /\ jobs[j].end_ts = 95
        /\ jobs[k].status = "SUCCEEDED" /\ jobs[k].end_ts = 200
        /\ \E e \in BagToSet(riskEvents) :
               e.job_id = j /\ e.min_distance_km = <<50, 1>> /\ e.risk_score = <<0, 1>>

\* a create_alert_deduped call of job j hit a row that another call had created
Conflicted(j) ==
    \E rec \in upsertLog :
        /\ rec.job_id = j
        /\ \E i \in 1..Len(alerts) :
               /\ alerts[i].dedupe_key = DedupeKey(rec.object_id, rec.tca_ts, rec.threshold_km)
               /\ alerts[i].tca_ts # rec.tca_ts

\* C11: a create_alert_deduped call that hits an existing dedupe_key changes no
\* table, raises nothing and lets process_job go on with the next object, the
\* RiskEvent committed just before it staying in the store; and a job that met
\* such a conflict and no processing error ends SUCCEEDED with attempts 0, no
\* error, and every flagged object processed.
C11_ConflictIsNoOp ==
    /\ [](\A j \in JobIds :
            (jobs[j].status = "SUCCEEDED" /\ Conflicted(j) /\ nfail[j] = 0 /\ Holders(j) = {})
            => /\ jobs[j].attempts = 0
               /\ jobs[j].error = None
               /\ \A i \in 1..Len(Objects) :
                      Flagged(jobs[j], Objects[i]) =>
                          /\ BagIn(NewRiskEvent(j, jobs[j], Objects[i]), riskEvents)
                          /\ \E rec \in upsertLog :
                                 rec.job_id = j /\ rec.object_id = Objects[i].object_id)
    /\ [][\A w \in Workers :
             (/\ pc[w] = "alert"
              /\ pc'[w] # "alert"
              /\ pc'[w] # "except"
              /\ \E i \in 1..Len(alerts) :
                     alerts[i].dedupe_key =
                         DedupeKey(Objects[widx[w]].object_id,
                                   Approach(jobs[wjob[w]], Objects[widx[w]]).tca_ts,
                                   jobs[wjob[w]].threshold_km))
             => /\ alerts' = alerts
                /\ jobs' = jobs
                /\ riskEvents' = riskEvents
                /\ BagIn(NewRiskEvent(wjob[w], jobs[wjob[w]], Objects[widx[w]]), riskEvents')
                /\ pc'[w] = "scan"
                /\ widx'[w] = widx[w] + 1
                /\ werr'[w] = None]_vars

C11_Witness ==
    \E j \in JobIds :
        jobs[j].status = "SUCCEEDED" /\ Conflicted(j) /\ nfail[j] = 0 /\ Holders(j) = {}

\* C12: ack_alert moves an OPEN alert to ACKED and changes nothing otherwise;
\* resolve_alert moves an alert that is not RESOLVED to RESOLVED and changes
\* nothing otherwise; so a status only ever goes OPEN->ACKED, OPEN->RESOLVED or
\* ACKED->RESOLVED, RESOLVED is never left, and right after either call the
\* same call again would change nothing (twice equals once).
C12_LifecycleIdempotent ==
    /\ []((call.fn \in {"ack_alert", "resolve_alert"} /\ ret # <<NotFound>>)
            => /\ call.alert_id \in 1..Len(alerts)
               /\ ret = <<alerts[call.alert_id].status>>
               /\ call.fn = "ack_alert" => alerts[call.alert_id].status # "OPEN"
               /\ call.fn = "resolve_alert" => alerts[call.alert_id].status = "RESOLVED")
    /\ [][\A i \in 1..Len(alerts) :
             alerts'[i].status # alerts[i].status =>
                 <<alerts[i].status, alerts'[i].status>> \in
                     {<<"OPEN", "ACKED">>, <<"OPEN", "RESOLVED">>, <<"ACKED", "RESOLVED">>}]_vars
    /\ [][(call' # call \/ ret' # ret) =>
             /\ call'.fn \in {"ack_alert", "resolve_alert"}
             /\ Len(alerts') = Len(alerts)
             /\ \A i \in 1..Len(alerts) :
                    alerts'[i] =
                        IF i # call'.alert_id THEN alerts[i]
                        ELSE IF call'.fn = "ack_alert"
                             THEN IF alerts[i].status = "OPEN"
                                  THEN [alerts[i] EXCEPT !.status = "ACKED"]
                                  ELSE alerts[i]
                             ELSE IF alerts[i].status # "RESOLVED"
                                  THEN [alerts[i] EXCEPT !.status = "RESOLVED"]
                                  ELSE alerts[i]]_vars

C12_Witness ==
    /\ Len(alerts) = 2
    /\ alerts[1].status = "RESOLVED"
    /\ alerts[2].status = "ACKED"
    /\ call = [fn |-> "ack_alert", alert_id |-> 1]
    /\ ret = <<"RESOLVED">>

\* C13: every job in the store, whatever its status, has end_ts > start_ts and
\* threshold_km > 0, a request that breaks either rule creating no job.
C13_IntakeValidated ==
    \A j \in JobIds :
        /\ jobs[j].end_ts > jobs[j].start_ts
        /\ RLt(RInt(0), jobs[j].threshold_km)

\* C14: risk_score(threshold, d) for d >= 0 lies in [0, 1], does not grow with
\* d, is 0 at d = threshold and for every d beyond it, is 1 at d = 0 when
\* threshold > 0, and is 0 whenever threshold <= 0.
C14_ScoreProperties ==
    (call.fn = "risk_score" /\ ret # <<>>) =>
        LET t == call.threshold_km
            d == call.min_distance_km
            s == ret[1]
        IN  /\ RLe(RInt(0), s) /\ RLe(s, RInt(1))
            /\ \A d2 \in ScoreDistances : RLe(d, d2) => RLe(risk_score(t, d2), s)
            /\ RLe(t, d) => s = RInt(0)
            /\ (d = RInt(0) /\ RLt(RInt(0), t)) => s = RInt(1)
            /\ RLe(t, RInt(0)) => s = RInt(0)

C14_Witness ==
    /\ call.fn = "risk_score"
    /\ call.threshold_km = RInt(2)
    /\ call.min_distance_km = Rat(1, 2)
    /\ ret = <<Rat(3, 4)>>

\* the squared distance from the origin of object o at time t (a rational):
\* |r0 + v (t - t0)|^2
Dist2At(o, t) ==
    LET dt == RSub(t, RInt(o.epoch_ts))
        px == RAdd(RInt(o.x_km), RMul(RInt(o.vx_km_s), dt))
        py == RAdd(RInt(o.y_km), RMul(RInt(o.vy_km_s), dt))
        pz == RAdd(RInt(o.z_km), RMul(RInt(o.vz_km_s), dt))
    IN  RAdd(RAdd(RMul(px, px), RMul(py, py)), RMul(pz, pz))

Speed2(o) == o.vx_km_s * o.vx_km_s + o.vy_km_s * o.vy_km_s + o.vz_km_s * o.vz_km_s

\* the minimum of Dist2At over the real interval [t1, t2], in closed form: the
\* parabola's vertex value |r0|^2 - (r0.v)^2 / |v|^2 when the vertex lies in
\* the interval, the smaller endpoint value otherwise
WindowMin2(o, t1, t2) ==
    LET rv == o.x_km * o.vx_km_s + o.y_km * o.vy_km_s + o.z_km * o.vz_km_s
        r2 == o.x_km * o.x_km + o.y_km * o.y_km + o.z_km * o.z_km
        \* vertex at t0 - rv / v2, compared after multiplying through by v2 > 0
        lhs == o.epoch_ts * Speed2(o) - rv
    IN  IF t1 * Speed2(o) <= lhs /\ lhs <= t2 * Speed2(o)
        THEN Rat(r2 * Speed2(o) - rv * rv, Speed2(o))
        ELSE RMin(Dist2At(o, RInt(t1)), Dist2At(o, RInt(t2)))

\* C15: for nonzero velocity and end_ts > start_ts the returned distance is at
\* most the distance at start_ts and at end_ts, at most the distance at every
\* integer and half-integer time of the window, and is the minimum of the
\* distance over the whole window (all on squared distances; where the square
\* root is rational the returned dmin is that root).
C15_WindowMinimum ==
    (call.fn = "closest_approach_constant_velocity" /\ ret # <<>> /\ Speed2(call.o) # 0
        /\ call.end_ts > call.start_ts) =>
        LET o == call.o
            t1 == call.start_ts
            t2 == call.end_ts
            m == ret[1].dmin2
        IN  /\ RLe(m, Dist2At(o, RInt(t1)))
            /\ RLe(m, Dist2At(o, RInt(t2)))
            /\ \A k \in 0..(2 * (t2 - t1)) : RLe(m, Dist2At(o, Rat(2 * t1 + k, 2)))
            /\ m = WindowMin2(o, t1, t2)
            /\ IsExactSquare(m) => RMul(ret[1].dmin, ret[1].dmin) = m

\* the vertex (t = 2) lies after the window [0, 1]: the end is the closest point
C15_Witness ==
    /\ call.fn = "closest_approach_constant_velocity"
    /\ call.o = [object_id |-> "G", epoch_ts |-> 0, x_km |-> 4, y_km |-> 0, z_km |-> 0,
                 vx_km_s |-> -2, vy_km_s |-> 0, vz_km_s |-> 0]
    /\ call.start_ts = 0
    /\ call.end_ts = 1
    /\ ret = <<[tca_ts |-> 1, dmin |-> RInt(2), dmin2 |-> RInt(4)]>>

\* C16: for zero velocity the result is the smaller of the distances at the two
\* ends of the window, with tca_ts = start_ts on a tie (and tca_ts the closer
\* end otherwise), and the distance is that of the epoch position from the
\* origin.
C16_ZeroVelocity ==
    (call.fn = "closest_approach_constant_velocity" /\ ret # <<>> /\ Speed2(call.o) = 0) =>
        LET o == call.o
            d1 == Dist2At(o, RInt(call.start_ts))
            d2 == Dist2At(o, RInt(call.end_ts))
        IN  /\ ret[1].dmin2 = RMin(d1, d2)
            /\ RLe(d1, d2) => ret[1].tca_ts = call.start_ts
            /\ RLt(d2, d1) => ret[1].tca_ts = call.end_ts
            /\ ret[1].dmin2 = RInt(o.x_km * o.x_km + o.y_km * o.y_km + o.z_km * o.z_km)
            /\ IsExactSquare(ret[1].dmin2) => RMul(ret[1].dmin, ret[1].dmin) = ret[1].dmin2

C16_Witness ==
    /\ call.fn = "closest_approach_constant_velocity"
    /\ call.o = [object_id |-> "G", epoch_ts |-> 2, x_km |-> 4, y_km |-> 3, z_km |-> 0,
                 vx_km_s |-> 0, vy_km_s |-> 0, vz_km_s |-> 0]
    /\ call.start_ts = 1
    /\ call.end_ts = 4
    /\ ret = <<[tca_ts |-> 1, dmin |-> RInt(5), dmin2 |-> RInt(25)]>>

\* the items of a serialized dict stand in ascending order of their keys
KeysAscend(items) ==
    \A i \in 1..(Len(items) - 1) : StrLess(items[i].key, items[i + 1].key)

\* C17: the output of build_explanation_json is a function of its arguments (a
\* second call with the same arguments returns the same serialization), its
\* seven fields and those of the nested dicts stand in sorted key order, and
\* why_flagged is min_distance_km <= threshold_km.
C17_ExplanationDeterministic ==
    (call.fn = "build_explanation_json" /\ ret # <<>>) =>
        LET out == ret[1]
        IN  /\ out = build_explanation_json(call.object_id, call.epoch_ts, call.start_ts,
                                            call.end_ts, call.threshold_km, call.tca_ts,
                                            call.min_distance_km, call.score)
            /\ Len(out) = 7
            /\ KeysAscend(out)
            /\ \A i \in 1..Len(out) : out[i].dict => KeysAscend(out[i].value)
            /\ \E i \in 1..Len(out) :
                   /\ out[i].key = K_why_flagged
                   /\ out[i].value = RLe(call.min_distance_km, call.threshold_km)

C17_Witness ==
    /\ call.fn = "build_explanation_json"
    /\ call.min_distance_km = RInt(50)
    /\ call.threshold_km = RInt(50)
    /\ ret # <<>>
    /\ ret[1][1].key = K_closest_approach
    /\ ret[1][1].value[1].key = K_min_distance_km
    /\ ret[1][6] = Item(K_why_flagged, TRUE)
    /\ ret[1][7].key = K_window

\* C18: when process_job raises, the worker writes nothing at the raise (the
\* RiskEvents and alerts committed earlier in the attempt stay as they are),
\* processes no further object of the attempt, and its one further write is
\* the retry transition of its job: attempts + 1, the error text, status
\* PENDING while attempts + 1 < max_attempts and FAILED otherwise.
C18_FailureFrame ==
    [][\A w \in Workers :
          /\ (pc[w] \in {"scan", "alert"} /\ pc'[w] = "except")
                 => (jobs' = jobs /\ riskEvents' = riskEvents /\ alerts' = alerts)
          /\ (pc[w] = "except" /\ pc'[w] # "except")
                 => /\ pc'[w] = "idle"
                    /\ riskEvents' = riskEvents
                    /\ alerts' = alerts
                    /\ werr[w] \in {ScanError, AlertError}
                    /\ jobs' = [jobs EXCEPT
                                   ![wjob[w]].attempts = @ + 1,
                                   ![wjob[w]].error = werr[w],
                                   ![wjob[w]].status =
                                       IF jobs[wjob[w]].attempts + 1 < jobs[wjob[w]].max_attempts
                                       THEN "PENDING" ELSE "FAILED"]]_vars

\* C19: a new alerts row has status OPEN; a create_alert_deduped call leaves
\* every existing row as it is, whatever its status, and adds no second row
\* for a key; and a status changes only in a step of ack_alert or
\* resolve_alert on that alert.
C19_EngineKeepsStatus ==
    [][/\ Len(alerts') >= Len(alerts)
       /\ \A i \in (Len(alerts) + 1)..Len(alerts') : alerts'[i].status = "OPEN"
       /\ \A i \in 1..Len(alerts) :
              alerts'[i].status # alerts[i].status =>
                  /\ call'.fn \in {"ack_alert", "resolve_alert"}
                  /\ call'.alert_id = i
                  /\ jobs' = jobs /\ riskEvents' = riskEvents /\ pc' = pc
                  /\ upsertLog' = upsertLog
       /\ \A w \in Workers :
              (pc[w] = "alert" /\ pc'[w] = "scan") =>
                  /\ \A i \in 1..Len(alerts) : alerts'[i] = alerts[i]
                  /\ \A i, k \in 1..Len(alerts') :
                         alerts'[i].dedupe_key = alerts'[k].dedupe_key => i = k]_vars

\* an alert was resolved, and a later create_alert_deduped call met its key
C19_Witness ==
    /\ Len(alerts) = 1
    /\ alerts[1].status = "RESOLVED"
    /\ opUpserts = 1
    /\ Cardinality(upsertLog) = 2

\* floor of a rational
RFloor(a) == a[1] \div a[2]

\* C20: the dedupe key of a detection is object_id ":" hour_bucket(tca_ts) ":"
\* floor(threshold_km); hour_bucket(ts) is a multiple of 3600 with
\* hour_bucket(ts) <= ts < hour_bucket(ts) + 3600; and two detections get the
\* same key exactly when they have the same object_id, their tca_ts lie in the
\* same clock hour and their thresholds have the same floor.  (The triple
\* DedupeKey of the job model is equal exactly when the strings are.)
C20_DedupeKeyComponents ==
    (call.fn = "dedupe_key" /\ ret # <<>>) =>
        LET hb == hour_bucket(call.tca_ts)
        IN  /\ hb % 3600 = 0
            /\ hb <= call.tca_ts
            /\ call.tca_ts < hb + 3600
            /\ ret[1] = call.object_id \o <<":">> \o IntStr(hb) \o <<":">>
                            \o IntStr(RFloor(call.threshold_km))
            /\ \A b \in KeyCalls :
                   /\ (FormatDedupeKey(b.object_id, b.tca_ts, b.threshold_km) = ret[1])
                          <=> /\ b.object_id = call.object_id
                              /\ b.tca_ts \div 3600 = call.tca_ts \div 3600
                              /\ RFloor(b.threshold_km) = RFloor(call.threshold_km)
                   /\ (FormatDedupeKey(b.object_id, b.tca_ts, b.threshold_km) = ret[1])
                          <=> (DedupeKey(b.object_id, b.tca_ts, b.threshold_km)
                                 = DedupeKey(call.object_id, call.tca_ts, call.threshold_km))

C20_Witness ==
    /\ call.fn = "dedupe_key"
    /\ call.object_id = <<"A", ":", "0">>
    /\ call.tca_ts = 7199
    /\ call.threshold_km = Rat(101, 2)
    /\ ret = <<<<"A", ":", "0", ":", "3", "6", "0", "0", ":", "5", "0">>>>

\* the tca_ts returned for every bounded input of the geometry, fractional
\* and half-way clamped times included, lies in the window
TcaInWindow ==
    \A c \in GeoCalls :
        LET r == closest_approach_constant_velocity(c.o, c.start_ts, c.end_ts)
        IN  c.start_ts <= r.tca_ts /\ r.tca_ts <= c.end_ts

\* C21: every RiskEvent has, for its job, start_ts <= tca_ts <= end_ts (the
\* rounded time of closest approach stays in the window), 0 <= risk_score <= 1
\* and min_distance_km <= threshold_km.
C21_RiskEventInvariants ==
    /\ TcaInWindow
    /\ \A ev \in BagToSet(riskEvents) :
           /\ ev.job_id \in JobIds
           /\ jobs[ev.job_id].start_ts <= ev.tca_ts
           /\ ev.tca_ts <= jobs[ev.job_id].end_ts
           /\ RLe(RInt(0), ev.risk_score)
           /\ RLe(ev.risk_score, RInt(1))
           /\ RLe(ev.min_distance_km, jobs[ev.job_id].threshold_km)

\* a RiskEvent at the edge: tca_ts = end_ts, min_distance_km = threshold_km
C21_Witness ==
    \E ev \in BagToSet(riskEvents) :
        /\ ev.tca_ts = jobs[ev.job_id].end_ts
        /\ ev.min_distance_km = jobs[ev.job_id].threshold_km
        /\ ev.risk_score = RInt(0)

\* the attempts of every job are between 0 and max_attempts, and a job is
\* FAILED exactly when its attempts have reached max_attempts
AttemptsInRange ==
    \A j \in JobIds :
        /\ 0 <= jobs[j].attempts
        /\ jobs[j].attempts <= jobs[j].max_attempts
        /\ (jobs[j].status = "FAILED") <=> (jobs[j].attempts = jobs[j].max_attempts)

\* no step lowers the attempts of a job or changes its max_attempts
AttemptsMonotone ==
    \A j \in JobIds :
        /\ jobs'[j].attempts >= jobs[j].attempts
        /\ jobs'[j].max_attempts = jobs[j].max_attempts

\* C22: under any interleaving of concurrent workers every job has
\* 0 <= attempts <= max_attempts, is FAILED exactly when attempts = max_attempts,
\* its attempts never decrease and its max_attempts never changes.
C22_AttemptsInvariant == []AttemptsInRange /\ [][AttemptsMonotone]_vars

\* the workers inside a run_once invocation, and the jobs that are RUNNING
InsideRunOnce == {w \in Workers : pc[w] # "idle"}
RunningJobs == {j \in JobIds : jobs[j].status = "RUNNING"}

\* C23: no job is left orphaned in RUNNING: when no worker is inside run_once
\* no job is RUNNING, and there are never more RUNNING jobs than workers inside
\* run_once.
C23_NoOrphanRunning ==
    /\ (InsideRunOnce = {}) => (RunningJobs = {})
    /\ Cardinality(RunningJobs) <= Cardinality(InsideRunOnce)

\* every worker has returned, after an invocation that raised and one that succeeded
C23_Witness ==
    /\ InsideRunOnce = {}
    /\ \E j \in JobIds : nfail[j] >= 1
    /\ \E j \in JobIds : nsucc[j] >= 1

\* a RUNNING or SUCCEEDED job carries no error; a job that is FAILED, or PENDING
\* after a failed attempt, carries the text of a failure
ErrorMatchesStatus ==
    \A j \in JobIds :
        /\ jobs[j].status \in {"RUNNING", "SUCCEEDED"} => jobs[j].error = None
        /\ (jobs[j].status = "FAILED"
              \/ (jobs[j].status = "PENDING" /\ jobs[j].attempts > 0))
           => jobs[j].error \in {ScanError, AlertError}

\* the error of a job changes only when it is claimed (cleared) or when a failure
\* of it is recorded, and then it is the text of that failure
ErrorIsLastFailure ==
    \A j \in JobIds :
        /\ \A w \in Workers :
               (pc[w] = "except" /\ pc'[w] = "idle" /\ wjob[w] = j)
                   => jobs'[j].error = werr[w]
        /\ jobs'[j].error # jobs[j].error =>
               \/ jobs'[j].error = None /\ jobs'[j].status = "RUNNING"
               \/ nfail'[j] = nfail[j] + 1

\* C24: claiming clears the error and only a failure sets it: a RUNNING or
\* SUCCEEDED job has error = None, and a job that is FAILED, or PENDING with
\* attempts > 0, has the text of its most recent failure as its error.
C24_ErrorField == []ErrorMatchesStatus /\ [][ErrorIsLastFailure]_vars

\* C25: every Alert in the store has at least one RiskEvent with the same
\* object_id, tca_ts, min_distance_km and risk_score, the detection that
\* created it, also when a job fails right after a RiskEvent commit.
C25_AlertHasRiskEvent ==
    \A i \in 1..Len(alerts) :
        \E ev \in BagToSet(riskEvents) :
            /\ ev.object_id = alerts[i].object_id
            /\ ev.tca_ts = alerts[i].tca_ts
            /\ ev.min_distance_km = alerts[i].min_distance_km
            /\ ev.risk_score = alerts[i].risk_score

\* an Alert is stored, and a job has failed between a RiskEvent commit and its
\* alert upsert
C25_Witness ==
    /\ Len(alerts) >= 1
    /\ \E j \in JobIds : jobs[j].error = AlertError /\ nfail[j] >= 1

\* claim_next_job has selected job k at least once
Selected(k) == Claims(k) > 0 \/ \E w \in Workers : pc[w] = "claiming" /\ wjob[w] = k

\* C26: with a single worker a job returned to PENDING keeps its place in the
\* creation order: a newer job is first claimed only after every older job is
\* SUCCEEDED or FAILED, so a retried job is claimed again before any PENDING job
\* created after it and jobs reach their terminal status in creation order.
C26_RetryKeepsOrder ==
    \A j \in JobIds : \A k \in JobIds :
        j < k =>
            /\ Selected(k) => Terminal(j)
            /\ Terminal(k) => Terminal(j)
            /\ (jobs[j].status = "PENDING" /\ jobs[j].attempts > 0) => ~Selected(k)

\* the older job runs again after a failed attempt while a newer job, not yet
\* claimed, is PENDING
C26_Witness ==
    /\ Len(jobs) = 2
    /\ jobs[1].status = "RUNNING" /\ jobs[1].attempts >= 1
    /\ jobs[2].status = "PENDING" /\ ~Selected(2)
====
